---- MODULE Spec2Model ----
(***************************************************************************)
(* Model of qdrant_client/qdrant_fastembed.py (QdrantFastembedMixin):      *)
(* the record stream built by _points_iterator and the ingestion call add. *)
(*                                                                         *)
(* Python values are modelled as tuples so that any two of them can be     *)
(* compared: None is <<"None">>, the i-th supplied id is <<"id", i>>, a    *)
(* generated uuid is <<"uuid", n>>, a document is <<"doc", i>>, an image   *)
(* path is <<"img", i>>, a vector is <<"vec", slot, model, item>> (the     *)
(* embedding of item by the model of that slot).  A dict is a function     *)
(* from keys to values.  A model name is the sequence of its "/"-separated *)
(* segments.                                                               *)
(***************************************************************************)
EXTENDS Integers, Sequences, FiniteSets, TLC

\* ---------------------------------------------------------------- bounds
\* Longest input sequence handed to _points_iterator or to add.
MaxLen == 2
\* Largest batch_size handed to add (the embedders read their input in
\* batches of batch_size items).
MaxBatch == 2
\* Records drawn from a stream that no supplied sequence bounds: one more
\* than any supplied sequence can give.
MaxEmit == MaxLen + 1
\* the most calls of the model selection methods, and the most threads
MaxCalls == 3
MaxThreads == 2

\* ---------------------------------------------------------------- values
None == <<"None">>

Id(i) == <<"id", i>>
Uuid(n) == <<"uuid", n>>
Doc(i) == <<"doc", i>>
Img(i) == <<"img", i>>
Vec(slot, model, item) == <<"vec", slot, model, item>>

EmptyDict == <<>>
SetItem(d, k, v) == (k :> v) @@ d
Meta(i) == ("k" :> Id(i))

Min(a, b) == IF a <= b THEN a ELSE b

\* ------------------------------------------------------- supported models
\* SUPPORTED_EMBEDDING_MODELS, SUPPORTED_IMAGE_EMBEDDING_MODELS and
\* SUPPORTED_SPARSE_EMBEDDING_MODELS: the tables the module builds from
\* fastembed's list_supported_models().
DEFAULT_EMBEDDING_MODEL == <<"BAAI", "bge-small-en">>
SUPPORTED_EMBEDDING_MODELS ==
    {DEFAULT_EMBEDDING_MODEL, <<"sentence-transformers", "all-MiniLM-L6-v2">>}
SUPPORTED_IMAGE_EMBEDDING_MODELS == {<<"Qdrant", "clip-ViT-B-32-vision">>}
SUPPORTED_SPARSE_EMBEDDING_MODELS ==
    {<<"prithivida", "Splade_PP_en_v1">>, <<"prithvida", "Splade_PP_en_v1">>}

\* str.lower() on the last segment of the model names in use.
Lower(s) ==
    CASE s = "bge-small-en" -> "bge-small-en"
      [] s = "all-MiniLM-L6-v2" -> "all-minilm-l6-v2"
      [] s = "clip-ViT-B-32-vision" -> "clip-vit-b-32-vision"
      [] s = "Splade_PP_en_v1" -> "splade_pp_en_v1"
      [] OTHER -> s

VARIABLES
    \* the session (self)
    _embedding_model_name,
    _image_embedding_model_name,
    _sparse_embedding_model_name,
    \* the arguments of the running _points_iterator call
    args,
    \* the seven iterators zip() reads, in zip order
    iters,
    \* how far each underlying sequence has been read; the vectors an
    \* embedder has computed and not yet yielded; uuids drawn so far
    cursor, buffer, nextId,
    \* the generator: "idle" (not created), "running", "done" (StopIteration)
    \* or "error" (an exception left the generator)
    status,
    \* the list handed in as ids_accumulator
    ids_accumulator,
    \* the records the generator has yielded, and the tuples zip() has produced
    emitted, tuples,
    \* the running add call: where it is, what it was called with, the
    \* collection_info it got, the store methods it has called so far
    add_pc, add_call, collection_info, store_calls,
    \* how each of those store calls ended: "ok" or the exception it raised
    store_outcomes,
    \* the class attributes embedding_models, image_embedding_models and
    \* sparse_embedding_models (model name -> provider instance), shared by
    \* all sessions of the process, and how many providers have been
    \* constructed so far
    embedding_models, image_embedding_models, sparse_embedding_models,
    constructed,
    \* the calls of set_model, set_image_model, set_sparse_model and
    \* _get_or_init_*_model made one after the other, with what each returned
    resolved,
    \* the threads that call _get_or_init_*_model concurrently
    thread,
    \* the running query or query_batch call: its arguments, the embedding
    \* and store calls it has made, and how it ended
    query_call, query_events, query_result

session == <<_embedding_model_name, _image_embedding_model_name,
             _sparse_embedding_model_name>>
stream == <<args, iters, cursor, buffer, nextId, status, ids_accumulator,
            emitted, tuples>>
adding == <<add_pc, add_call, collection_info, store_calls, store_outcomes>>
registry == <<embedding_models, image_embedding_models, sparse_embedding_models,
              constructed>>
querying == <<query_call, query_events, query_result>>
vars == <<session, stream, adding, registry, resolved, thread, querying>>

\* ------------------------------------------------------------ field names
get_vector_field_name ==
    IF _embedding_model_name # None
    THEN <<"fast-", Lower(_embedding_model_name[Len(_embedding_model_name)])>>
    ELSE None

get_image_vector_field_name ==
    IF _image_embedding_model_name # None
    THEN <<"fast-image-",
           Lower(_image_embedding_model_name[Len(_image_embedding_model_name)])>>
    ELSE None

get_sparse_vector_field_name ==
    IF _sparse_embedding_model_name # None
    THEN <<"fast-sparse-",
           Lower(_sparse_embedding_model_name[Len(_sparse_embedding_model_name)])>>
    ELSE None

\* --------------------------------------------------------- model registry
\* the slots, as the embedders tag the vectors they compute
Slots == {"dense", "image", "sparse"}
SupportedModels(slot) ==
    CASE slot = "dense" -> SUPPORTED_EMBEDDING_MODELS
      [] slot = "image" -> SUPPORTED_IMAGE_EMBEDDING_MODELS
      [] slot = "sparse" -> SUPPORTED_SPARSE_EMBEDDING_MODELS
\* a model name that none of the three tables lists
UnsupportedModel == <<"acme", "no-such-model">>
\* the cache_dir argument (threads and providers are passed on alike)
CacheDirs == {"dir_a", "dir_b"}

\* TextEmbedding(...), ImageEmbedding(...), SparseTextEmbedding(...): a new
\* provider object; serial tells it from every object constructed before
Provider(slot, model_name, cache_dir, serial) ==
    [slot |-> slot, model |-> model_name, cache_dir |-> cache_dir,
     serial |-> serial]
NoProvider == Provider("", None, "", 0)
\* how a call ends: it returns a value or raises
Returned(v) == [raised |-> "", value |-> v]
Raised(e) == [raised |-> e, value |-> NoProvider]

\* A faulty GetOrInit: a cached provider is reused only by a call that
\* passes the cache_dir it was constructed with.
GetOrInitPerOptions(cache, slot, model_name, cache_dir, built) ==
    IF model_name \in DOMAIN cache /\ cache[model_name].cache_dir = cache_dir
    THEN [cache |-> cache, built |-> built, result |-> Returned(cache[model_name])]
    ELSE IF model_name \notin SupportedModels(slot)
    THEN [cache |-> cache, built |-> built, result |-> Raised("ValueError")]
    ELSE LET p == Provider(slot, model_name, cache_dir, built + 1)
         IN [cache |-> SetItem(cache, model_name, p), built |-> built + 1,
             result |-> Returned(p)]
\* _get_or_init_text_model, _get_or_init_image_model and
\* _get_or_init_sparse_model, run by one caller without interruption: the
\* cache of the slot and the providers constructed afterwards, and the result
GetOrInit(cache, slot, model_name, cache_dir, built) ==
    IF model_name \in DOMAIN cache
    THEN [cache |-> cache, built |-> built, result |-> Returned(cache[model_name])]
    ELSE IF model_name \notin SupportedModels(slot)
    THEN [cache |-> cache, built |-> built, result |-> Raised("ValueError")]
    ELSE LET p == Provider(slot, model_name, cache_dir, built + 1)
         IN [cache |-> SetItem(cache, model_name, p), built |-> built + 1,
             result |-> Returned(p)]

_get_or_init_text_model(model_name, cache_dir) ==
    GetOrInit(embedding_models, "dense", model_name, cache_dir, constructed)
_get_or_init_image_model(model_name, cache_dir) ==
    GetOrInit(image_embedding_models, "image", model_name, cache_dir, constructed)
_get_or_init_sparse_model(model_name, cache_dir) ==
    GetOrInit(sparse_embedding_models, "sparse", model_name, cache_dir, constructed)

\* the class attributes when the module is loaded: nothing resolved yet
EmptyCache == [m \in {} |-> NoProvider]
ColdRegistry ==
    /\ embedding_models = EmptyCache
    /\ image_embedding_models = EmptyCache
    /\ sparse_embedding_models = EmptyCache
    /\ constructed = 0

\* the class attributes of a process whose earlier sessions have resolved
\* every supported model, in the order WarmOrder lists them
RECURSIVE SeqOfSet(_)
SeqOfSet(S) ==
    IF S = {} THEN <<>>
    ELSE LET x == CHOOSE y \in S : TRUE IN <<x>> \o SeqOfSet(S \ {x})
WarmOrder ==
    SeqOfSet({<<"dense", m>> : m \in SUPPORTED_EMBEDDING_MODELS})
    \o SeqOfSet({<<"image", m>> : m \in SUPPORTED_IMAGE_EMBEDDING_MODELS})
    \o SeqOfSet({<<"sparse", m>> : m \in SUPPORTED_SPARSE_EMBEDDING_MODELS})
WarmProvider(i) == Provider(WarmOrder[i][1], WarmOrder[i][2], "dir_a", i)
WarmCache(slot) ==
    LET I == {i \in 1..Len(WarmOrder) : WarmOrder[i][1] = slot}
    IN [m \in {WarmOrder[i][2] : i \in I} |->
          WarmProvider(CHOOSE i \in I : WarmOrder[i][2] = m)]
WarmRegistry ==
    /\ embedding_models = WarmCache("dense")
    /\ image_embedding_models = WarmCache("image")
    /\ sparse_embedding_models = WarmCache("sparse")
    /\ constructed = Len(WarmOrder)

\* -------------------------------------------------------------- iterators
\* An argument of _points_iterator: not given (Python None) or an iterable.
\* An iterable is what iter() of it yields:
\*   [kind |-> "read", data, cur]   the items of data, read through cursor cur
\*                                  (two readers of one single-pass generator
\*                                  share the cursor; a list or a tee() copy
\*                                  has a cursor of its own)
\*   [kind |-> "embed", ...]        an embedder generator over such a reader
\*                                  opt: an item may be None instead (a
\*                                  caller's list of vectors; which items are
\*                                  None is settled as they are read)
NotGiven == [kind |-> "pynone"]
Given(a) == a.kind # "pynone"
ListOf(items, cur) ==
    [kind |-> "read", data |-> items, cur |-> cur, single_pass |-> FALSE,
     opt |-> FALSE]
GeneratorOf(items, cur) == [ListOf(items, cur) EXCEPT !.single_pass = TRUE]
OptListOf(items, cur) == [ListOf(items, cur) EXCEPT !.opt = TRUE]

OptItems(d) == d.kind = "read" /\ d.opt

ZipSlots == <<"ids", "metadata", "documents", "text_vectors", "images",
              "image_vectors", "sparse_vectors">>
CursorNames == {"ids", "metadata", "documents", "text_vectors", "images",
                "image_vectors", "sparse_vectors",
                "documents_dense", "documents_sparse", "images_embed"}
EmbedderNames == {"text_vectors", "image_vectors", "sparse_vectors"}

ZeroCursor == [c \in CursorNames |-> 0]
EmptyBuffer == [e \in EmbedderNames |-> <<>>]

\* A faulty UuidIter: one uuid drawn when the iterator is made and repeated
\* by every next().
UuidIterOnce == [kind |-> "uuid_once"]
\* iter(lambda: uuid.uuid4().hex, None): one draw per next().
\* uuid4 is modelled as a source of values never drawn before.
UuidIter == [kind |-> "uuid"]
\* iter(lambda: {}, None) and iter(lambda: None, True)
DictIter == [kind |-> "dict"]
NoneIter == [kind |-> "nonegen"]

\* Lines 460-476: the iterators zip() is given for the arguments a.
NormalizeArgs(a) ==
    [ids |-> IF a.ids.kind = "pynone" THEN UuidIter ELSE a.ids,
     metadata |-> IF a.metadata.kind = "pynone" THEN DictIter ELSE a.metadata,
     documents |-> IF a.documents.kind = "pynone" THEN NoneIter ELSE a.documents,
     text_vectors |->
        IF a.documents.kind = "pynone" THEN NoneIter ELSE a.text_vectors,
     images |-> IF a.images.kind = "pynone" THEN NoneIter ELSE a.images,
     image_vectors |->
        IF a.images.kind = "pynone" THEN NoneIter ELSE a.image_vectors,
     sparse_vectors |->
        IF a.documents.kind = "pynone" \/ a.sparse_vectors.kind = "pynone"
        THEN NoneIter ELSE a.sparse_vectors]

\* The items an embedder reads next: a batch of up to batch items.
Batch(d, st) ==
    LET from == st.cursor[d.cur]
        n == Min(d.batch, Len(d.data) - from)
    IN [i \in 1..n |-> d.data[from + i]]

\* next() on the iterator d in the state st of cursors, buffers and uuids;
\* st.hole[c] says whether the item now read through cursor c of a list of
\* optional items is None.
Next_(d, st) ==
    CASE d.kind = "uuid" ->
            [tag |-> "val", val |-> Uuid(st.nextId + 1),
             st |-> [st EXCEPT !.nextId = @ + 1]]
      [] d.kind = "uuid_once" ->
            [tag |-> "val", val |-> Uuid(1), st |-> st]
      [] d.kind = "dict" -> [tag |-> "val", val |-> EmptyDict, st |-> st]
      [] d.kind = "nonegen" -> [tag |-> "val", val |-> None, st |-> st]
      [] d.kind = "read" ->
            IF st.cursor[d.cur] < Len(d.data)
            THEN [tag |-> "val",
                  val |-> IF OptItems(d) /\ st.hole[d.cur] THEN None
                          ELSE d.data[st.cursor[d.cur] + 1],
                  st |-> [st EXCEPT !.cursor[d.cur] = @ + 1]]
            ELSE [tag |-> "stop", val |-> None, st |-> st]
      [] d.kind = "embed" ->
            IF st.buffer[d.emb] # <<>>
            THEN [tag |-> "val", val |-> Head(st.buffer[d.emb]),
                  st |-> [st EXCEPT !.buffer[d.emb] = Tail(@)]]
            ELSE LET b == Batch(d, st)
                     vs == [i \in 1..Len(b) |-> Vec(d.slot, d.model, b[i])]
                 IN IF Len(b) = 0
                    THEN [tag |-> "stop", val |-> None, st |-> st]
                    ELSE [tag |-> "val", val |-> vs[1],
                          st |-> [st EXCEPT !.cursor[d.cur] = @ + Len(b),
                                            !.buffer[d.emb] = Tail(vs)]]

\* One next() of zip(ids, metadata, documents, text_vectors, images,
\* image_vectors, sparse_vectors): the iterators are read in this order and
\* the first exhausted one ends the zip (those before it have been read).
RECURSIVE ZipNext(_, _, _)
ZipNext(i, st, vals) ==
    IF i > Len(ZipSlots)
    THEN [tag |-> "val", vals |-> vals, st |-> st]
    ELSE LET r == Next_(iters[ZipSlots[i]], st)
         IN IF r.tag = "stop"
            THEN [tag |-> "stop", vals |-> vals, st |-> r.st]
            ELSE ZipNext(i + 1, r.st, Append(vals, r.val))

Tuple(vals) ==
    [idx |-> vals[1], meta |-> vals[2], doc |-> vals[3],
     text_vector |-> vals[4], image_path |-> vals[5],
     image_vector |-> vals[6], sparse_vector |-> vals[7]]

\* ------------------------------------------------- the loop body, 485-506
\* line 489
DocAssert(t) ==
    t.doc # None => (t.text_vector # None \/ t.sparse_vector # None)
\* line 493
TextAssert(t) == t.text_vector # None => get_vector_field_name # None
\* A faulty ImageAssert: the image vector itself is not checked.
ImageAssertNameOnly(t) ==
    t.image_path # None => get_image_vector_field_name # None
\* lines 497-498
ImageAssert(t) ==
    t.image_path # None =>
        (t.image_vector # None /\ get_image_vector_field_name # None)
\* line 503
SparseAssert(t) == t.sparse_vector # None => get_sparse_vector_field_name # None

BodyOk(t) == DocAssert(t) /\ TextAssert(t) /\ ImageAssert(t) /\ SparseAssert(t)

\* meta after the body (the dict is changed in place, lines 490 and 499)
BodyMeta(t) ==
    LET m1 == IF t.doc # None /\ DocAssert(t)
              THEN SetItem(t.meta, "document", t.doc) ELSE t.meta
    IN IF DocAssert(t) /\ TextAssert(t) /\ t.image_path # None /\ ImageAssert(t)
       THEN SetItem(m1, "image_path", t.image_path) ELSE m1

\* the metadata the caller handed in, once the body has run on its i-th
\* mapping: meta is that mapping itself, not a copy of it
MetadataAfter(d, i, meta) ==
    IF d.kind = "read" THEN [d EXCEPT !.data[i] = meta] ELSE d

\* point_vector (lines 486, 494, 500, 504); a later assignment to the same
\* key replaces an earlier one
PointVector(t) ==
    LET text == IF t.text_vector # None
                THEN (get_vector_field_name :> t.text_vector) ELSE <<>>
        image == IF t.image_path # None
                 THEN (get_image_vector_field_name :> t.image_vector) ELSE <<>>
        sparse == IF t.sparse_vector # None
                  THEN (get_sparse_vector_field_name :> t.sparse_vector) ELSE <<>>
    IN sparse @@ image @@ text

PointStruct(t) == [id |-> t.idx, payload |-> BodyMeta(t), vector |-> PointVector(t)]

\* ------------------------------------------------- one next() of the stream
\* The generator runs from where it is suspended to its next yield, to its
\* end, or to the exception that ends it.
Resume ==
    /\ status = "running"
    /\ Len(emitted) < MaxEmit
    /\ IF \E s \in DOMAIN iters : iters[s].kind = "pynone"
       THEN \* zip() of None: TypeError when the generator first runs
            /\ status' = "error"
            /\ UNCHANGED <<cursor, buffer, nextId, ids_accumulator, emitted,
                           tuples, args, iters>>
       ELSE \E hole \in [{e \in EmbedderNames : OptItems(iters[e])} -> BOOLEAN] :
            LET z == ZipNext(1, [cursor |-> cursor, buffer |-> buffer,
                                 nextId |-> nextId, hole |-> hole], <<>>)
                t == Tuple(z.vals)
            IN /\ cursor' = z.st.cursor
               /\ buffer' = z.st.buffer
               /\ nextId' = z.st.nextId
               /\ IF z.tag = "stop"
                  THEN /\ status' = "done"
                       /\ UNCHANGED <<ids_accumulator, emitted, tuples, args,
                                      iters>>
                  ELSE /\ tuples' = Append(tuples, t)
                       /\ ids_accumulator' = Append(ids_accumulator, t.idx)
                       /\ args' = [args EXCEPT !.metadata =
                             MetadataAfter(@, z.st.cursor["metadata"],
                                           BodyMeta(t))]
                       /\ iters' = [iters EXCEPT !.metadata =
                             MetadataAfter(@, z.st.cursor["metadata"],
                                           BodyMeta(t))]
                       /\ IF BodyOk(t)
                          THEN /\ emitted' = Append(emitted, PointStruct(t))
                               /\ status' = "running"
                          ELSE /\ emitted' = emitted
                               /\ status' = "error"

\* ------------------------------------------- _points_iterator called directly
\* The sequences a caller may hand in: lists of up to MaxLen items; any item
\* of a list of vectors may be None.
Lens == 0..MaxLen
Ids(n) == [i \in 1..n |-> Id(i)]
Metas(n) == [i \in 1..n |-> Meta(i)]
Docs(n) == [i \in 1..n |-> Doc(i)]
Imgs(n) == [i \in 1..n |-> Img(i)]
IdsArgs == {NotGiven} \cup {ListOf(Ids(n), "ids") : n \in Lens}
MetadataArgs == {NotGiven} \cup {ListOf(Metas(n), "metadata") : n \in Lens}
DocumentsArgs == {NotGiven} \cup {ListOf(Docs(n), "documents") : n \in Lens}
ImagesArgs == {NotGiven} \cup {ListOf(Imgs(n), "images") : n \in Lens}
VectorArgs(slot, cur) ==
    {NotGiven} \cup
    {OptListOf([i \in 1..n |-> Vec(slot, <<"caller">>, Id(i))], cur) : n \in Lens}

NoArgs == [ids |-> NotGiven, metadata |-> NotGiven, documents |-> NotGiven,
           images |-> NotGiven, text_vectors |-> NotGiven,
           image_vectors |-> NotGiven, sparse_vectors |-> NotGiven]
NoCall == [documents |-> NotGiven, metadata |-> NotGiven, ids |-> NotGiven,
           images |-> NotGiven, batch_size |-> 0,
           dense |-> None, image |-> None, sparse |-> None]
NoInfo == [vectors |-> <<>>, sparse_vectors |-> [given |-> FALSE, fields |-> {}]]

\* The generator object is created with the arguments a (its body has not run).
CreateGenerator(a) ==
    /\ args' = a
    /\ iters' = NormalizeArgs(a)
    /\ status' = "running"
    /\ cursor' = ZeroCursor
    /\ buffer' = EmptyBuffer
    /\ nextId' = 0
    /\ ids_accumulator' = <<>>
    /\ emitted' = <<>>
    /\ tuples' = <<>>

CallPointsIterator ==
    /\ status = "idle"
    /\ \E i \in IdsArgs, m \in MetadataArgs, d \in DocumentsArgs, g \in ImagesArgs,
          tv \in VectorArgs("dense", "text_vectors"),
          iv \in VectorArgs("image", "image_vectors"),
          sv \in VectorArgs("sparse", "sparse_vectors") :
          CreateGenerator([ids |-> i, metadata |-> m, documents |-> d,
                           images |-> g, text_vectors |-> tv,
                           image_vectors |-> iv, sparse_vectors |-> sv])
    /\ UNCHANGED <<session, adding, registry, resolved, thread, querying>>

PointsIteratorNext ==
    /\ Resume
    /\ UNCHANGED <<session, adding, registry, resolved, thread, querying>>

ModelOrNone(S) == S \cup {None}

\* no thread is inside _get_or_init_*_model
Threads == 1..MaxThreads
IdleThread == [pc |-> "idle"]
InitThreads == thread = [t \in Threads |-> IdleThread]

\* no query or query_batch call has been made
NoQuery ==
    [op |-> "", text |-> NotGiven, image |-> NotGiven, limit |-> 0,
     dense |-> None, image_model |-> None, sparse |-> None]
NoResult == [outcome |-> "", error |-> "", value |-> <<>>]
InitQuerying ==
    /\ query_call = NoQuery
    /\ query_events = <<>>
    /\ query_result = NoResult

InitStream ==
    /\ args = NoArgs
    /\ iters = NormalizeArgs(NoArgs)
    /\ cursor = ZeroCursor
    /\ buffer = EmptyBuffer
    /\ nextId = 0
    /\ status = "idle"
    /\ ids_accumulator = <<>>
    /\ emitted = <<>>
    /\ tuples = <<>>

InitAdding ==
    /\ add_pc = "idle"
    /\ add_call = NoCall
    /\ collection_info = NoInfo
    /\ store_calls = <<>>
    /\ store_outcomes = <<>>

\* the sparse model the sessions that ingest select
SPLADE == <<"prithivida", "Splade_PP_en_v1">>

\* A session in any model selection, on which _points_iterator is called.
InitIter ==
    /\ _embedding_model_name \in ModelOrNone({DEFAULT_EMBEDDING_MODEL})
    /\ _image_embedding_model_name \in ModelOrNone(SUPPORTED_IMAGE_EMBEDDING_MODELS)
    /\ _sparse_embedding_model_name \in ModelOrNone({SPLADE})
    /\ InitStream
    /\ InitAdding
    /\ WarmRegistry
    /\ resolved = <<>>
    /\ InitThreads
    /\ InitQuerying

NextIter ==
    \/ CallPointsIterator
    \/ PointsIteratorNext

SpecIter == InitIter /\ [][NextIter]_vars

\* ===================================================================== add
\* ------------------------------------------------------ model parameters
COSINE == "Cosine"
\* SUPPORTED_EMBEDDING_MODELS[model_name], SUPPORTED_IMAGE_EMBEDDING_MODELS[..]
_get_text_model_params(model_name) ==
    [size |-> CASE model_name = DEFAULT_EMBEDDING_MODEL -> 384
                [] OTHER -> 385,
     distance |-> COSINE]
_get_image_model_params(model_name) == [size |-> 512, distance |-> COSINE]

\* the embedding_model_name property: the default when none is set
embedding_model_name ==
    IF _embedding_model_name = None THEN DEFAULT_EMBEDDING_MODEL
    ELSE _embedding_model_name

\* the vectors_config and sparse_vectors_config add creates a collection with
get_fastembed_vector_params ==
    LET text == IF get_vector_field_name # None
                THEN (get_vector_field_name :>
                        _get_text_model_params(embedding_model_name))
                ELSE <<>>
        image == IF get_image_vector_field_name # None
                 THEN (get_image_vector_field_name :>
                        _get_image_model_params(_image_embedding_model_name))
                 ELSE <<>>
    IN image @@ text

\* A faulty get_fastembed_sparse_vector_params: no sparse field is declared.
SparseParamsOmitted == [given |-> FALSE, fields |-> {}]
get_fastembed_sparse_vector_params ==
    IF get_sparse_vector_field_name = None
    THEN [given |-> FALSE, fields |-> {}]
    ELSE [given |-> TRUE, fields |-> {get_sparse_vector_field_name}]

\* A faulty _validate_collection_info: the sparse field is not looked for.
ValidateWithoutSparse(ci) ==
    LET params_map == get_fastembed_vector_params
    IN \A f \in DOMAIN params_map :
          /\ f \in DOMAIN ci.vectors
          /\ params_map[f].size = ci.vectors[f].size
          /\ params_map[f].distance = ci.vectors[f].distance
\* A faulty _validate_collection_info: a vector field the selected models do
\* not use makes it fail.
ValidateExactFields(ci) ==
    /\ ValidateWithoutSparse(ci)
    /\ DOMAIN ci.vectors = DOMAIN get_fastembed_vector_params
    /\ get_sparse_vector_field_name # None =>
          /\ ci.sparse_vectors.given
          /\ get_sparse_vector_field_name \in ci.sparse_vectors.fields
\* _validate_collection_info: TRUE when no assertion fails and nothing raises
\* (a sparse_vectors of None raises TypeError on "in")
_validate_collection_info(ci) ==
    LET params_map ==
            (IF get_image_vector_field_name # None
             THEN (get_image_vector_field_name :>
                     _get_image_model_params(_image_embedding_model_name))
             ELSE <<>>)
            @@
            (IF get_vector_field_name # None
             THEN (get_vector_field_name :>
                     _get_text_model_params(embedding_model_name))
             ELSE <<>>)
    IN /\ \A f \in DOMAIN params_map : f \in DOMAIN ci.vectors
       /\ \A f \in DOMAIN params_map :
             /\ params_map[f].size = ci.vectors[f].size
             /\ params_map[f].distance = ci.vectors[f].distance
       /\ get_sparse_vector_field_name # None =>
             /\ ci.sparse_vectors.given
             /\ get_sparse_vector_field_name \in ci.sparse_vectors.fields

\* ------------------------------------------------------------- embedders
\* iter(x): a list gives a new iterator, a generator gives itself
IterOf(d, cur) == IF d.single_pass THEN d ELSE [d EXCEPT !.cur = cur]
\* A faulty TeeCopy: the iterable itself is handed on, without tee.
SharedCopy(d, cur) == IterOf(d, cur)
\* one of the two iterators of tee(d, 2): it reads the items of d through a
\* cursor of its own, whatever d is
TeeCopy(d, cur) == [d EXCEPT !.cur = cur, !.single_pass = TRUE]

\* _embed_documents(passage), _embed_images, _sparse_embed_documents: the
\* generator that embeds the items of input with the model of the slot,
\* reading them batch_size at a time and yielding one vector per item
Embedder(input, slot, model, batch_size, name) ==
    [kind |-> "embed", data |-> input.data, cur |-> input.cur, slot |-> slot,
     model |-> model, batch |-> batch_size, emb |-> name]

\* ------------------------------------------------------------------ add
BatchSizes == 1..MaxBatch
AddDocuments ==
    DocumentsArgs \cup {GeneratorOf(Docs(n), "documents") : n \in Lens}
AddImages == ImagesArgs \cup {GeneratorOf(Imgs(n), "images") : n \in Lens}
\* metadata handed to add: none, an empty list, one mapping per item
AddMetadata ==
    {NotGiven} \cup {ListOf(Metas(n), "metadata") : n \in {0, MaxLen}}

\* A faulty embed_dense_text: dense vectors whatever models are selected.
embed_dense_text_always == TRUE
\* lines 655-663
embed_dense_text ==
    \/ _image_embedding_model_name = None /\ _sparse_embedding_model_name = None
    \/ _embedding_model_name # None

\* lines 655-693: the embedders are set up (nothing is embedded yet); reading
\* self.embedding_model_name makes the default model the selected one
AddCall ==
    /\ add_pc = "idle"
    /\ \E documents \in AddDocuments, images \in AddImages, ids \in IdsArgs,
          metadata \in AddMetadata, batch_size \in BatchSizes :
        LET dense == Given(documents) /\ embed_dense_text
            with_image == Given(images) /\ _image_embedding_model_name # None
            sparse == Given(documents) /\ _sparse_embedding_model_name # None
        IN /\ add_call' = [documents |-> documents, metadata |-> metadata,
                           ids |-> ids, images |-> images,
                           batch_size |-> batch_size,
                           dense |-> _embedding_model_name,
                           image |-> _image_embedding_model_name,
                           sparse |-> _sparse_embedding_model_name]
           /\ _embedding_model_name' =
                 IF dense THEN embedding_model_name ELSE _embedding_model_name
           /\ args' =
                [ids |-> ids,
                 metadata |-> metadata,
                 documents |->
                    IF dense \/ sparse THEN TeeCopy(documents, "documents")
                    ELSE documents,
                 text_vectors |->
                    IF dense
                    THEN Embedder(TeeCopy(documents, "documents_dense"), "dense",
                                  embedding_model_name, batch_size, "text_vectors")
                    ELSE NotGiven,
                 images |-> images,
                 image_vectors |->
                    IF with_image
                    THEN Embedder(IterOf(images, "images_embed"), "image",
                                  _image_embedding_model_name, batch_size,
                                  "image_vectors")
                    ELSE NotGiven,
                 sparse_vectors |->
                    IF sparse
                    THEN Embedder(TeeCopy(documents, "documents_sparse"), "sparse",
                                  _sparse_embedding_model_name, batch_size,
                                  "sparse_vectors")
                    ELSE NotGiven]
    /\ add_pc' = "get_collection"
    /\ store_calls' = <<>>
    /\ store_outcomes' = <<>>
    /\ collection_info' = NoInfo
    /\ UNCHANGED <<_image_embedding_model_name, _sparse_embedding_model_name,
                   iters, cursor, buffer, nextId, status, ids_accumulator,
                   emitted, tuples, registry, resolved, thread, querying>>

\* What get_collection may return for an existing collection.
VectorFieldNames ==
    {<<"fast-", Lower(DEFAULT_EMBEDDING_MODEL[2])>>}
    \cup {<<"fast-image-", Lower(m[2])>> : m \in SUPPORTED_IMAGE_EMBEDDING_MODELS}
SparseFieldNames ==
    {<<"fast-sparse-", Lower(m[2])>> : m \in SUPPORTED_SPARSE_EMBEDDING_MODELS}
VectorParamsChoices ==
    {[size |-> 384, distance |-> COSINE], [size |-> 512, distance |-> COSINE],
     [size |-> 384, distance |-> "Dot"]}
CollectionInfos ==
    {[vectors |-> v, sparse_vectors |-> sp] :
        v \in UNION {[F -> VectorParamsChoices] : F \in SUBSET VectorFieldNames},
        sp \in {[given |-> FALSE, fields |-> {}]}
               \cup {[given |-> TRUE, fields |-> F] : F \in SUBSET SparseFieldNames}}

\* what a store call may raise: the collection is not there, or the request
\* failed (transport, timeout, a refusal by the store)
StoreErrors == {"NotFound", "TransportError"}

\* lines 696-704: get_collection; when it raises (except Exception, line
\* 698: whatever it raises), create_collection with the configuration of the
\* selected models and get_collection again; what create_collection or the
\* second get_collection raises leaves add
AddGetCollection ==
    /\ add_pc = "get_collection"
    /\ \/ \E ci \in CollectionInfos :
            /\ collection_info' = ci
            /\ store_calls' = <<"get_collection">>
            /\ store_outcomes' = <<"ok">>
            /\ add_pc' = "validate"
       \/ \E error \in StoreErrors :
            \/ /\ collection_info' =
                    [vectors |-> get_fastembed_vector_params,
                     sparse_vectors |-> get_fastembed_sparse_vector_params]
               /\ store_calls' =
                    <<"get_collection", "create_collection", "get_collection">>
               /\ store_outcomes' = <<error, "ok", "ok">>
               /\ add_pc' = "validate"
            \/ /\ store_calls' = <<"get_collection", "create_collection">>
               /\ store_outcomes' = <<error, "TransportError">>
               /\ add_pc' = "raised"
               /\ UNCHANGED collection_info
            \/ /\ store_calls' =
                    <<"get_collection", "create_collection", "get_collection">>
               /\ store_outcomes' = <<error, "ok", "TransportError">>
               /\ add_pc' = "raised"
               /\ UNCHANGED collection_info
    /\ UNCHANGED <<session, stream, add_call, registry, resolved, thread,
                   querying>>

\* lines 706-728: the validation, then the generator is made and handed to
\* upload_points
AddValidate ==
    /\ add_pc = "validate"
    /\ IF _validate_collection_info(collection_info)
       THEN /\ CreateGenerator(args)
            /\ store_calls' = Append(store_calls, "upload_points")
            /\ add_pc' = "upload"
       ELSE /\ add_pc' = "raised"
            /\ UNCHANGED <<stream, store_calls>>
    /\ store_outcomes' =
          IF _validate_collection_info(collection_info)
          THEN Append(store_outcomes, "ok") ELSE store_outcomes
    /\ UNCHANGED <<session, add_call, collection_info, registry, resolved,
                   thread, querying>>

\* upload_points draws the next record; when the stream ends add returns
\* inserted_ids (line 730), when it raises so does add
AddUploadNext ==
    /\ add_pc = "upload"
    /\ Resume
    /\ add_pc' = CASE status' = "done" -> "returned"
                   [] status' = "error" -> "raised"
                   [] OTHER -> "upload"
    /\ UNCHANGED <<session, add_call, collection_info, store_calls,
                   store_outcomes, registry, resolved, thread, querying>>

\* the caller goes on after add returned or raised
AddLeave ==
    /\ add_pc \in {"returned", "raised"}
    /\ add_pc' = "idle"
    /\ add_call' = NoCall
    /\ collection_info' = NoInfo
    /\ store_calls' = <<>>
    /\ store_outcomes' = <<>>
    /\ args' = NoArgs
    /\ iters' = NormalizeArgs(NoArgs)
    /\ cursor' = ZeroCursor
    /\ buffer' = EmptyBuffer
    /\ nextId' = 0
    /\ status' = "idle"
    /\ ids_accumulator' = <<>>
    /\ emitted' = <<>>
    /\ tuples' = <<>>
    /\ UNCHANGED <<session, registry, resolved, thread, querying>>

\* ------------------------------------------------------- model selection
\* A faulty set_model: the name is stored before the model is resolved.
set_model_name_first(name, cache_dir) ==
    LET r == _get_or_init_text_model(name, cache_dir)
    IN /\ embedding_models' = r.cache
       /\ constructed' = r.built
       /\ _embedding_model_name' = name
       /\ UNCHANGED <<_image_embedding_model_name, _sparse_embedding_model_name,
                      image_embedding_models, sparse_embedding_models>>
\* set_model: the model is resolved (lines 122-128); when that raises, so
\* does set_model, else the name is stored (line 130)
set_model(name, cache_dir) ==
    LET r == _get_or_init_text_model(name, cache_dir)
    IN /\ embedding_models' = r.cache
       /\ constructed' = r.built
       /\ _embedding_model_name' =
             IF r.result.raised = "" THEN name ELSE _embedding_model_name
       /\ UNCHANGED <<_image_embedding_model_name, _sparse_embedding_model_name,
                      image_embedding_models, sparse_embedding_models>>

set_image_model(name, cache_dir) ==
    LET r == _get_or_init_image_model(name, cache_dir)
    IN /\ image_embedding_models' = r.cache
       /\ constructed' = r.built
       /\ _image_embedding_model_name' =
             IF r.result.raised = "" THEN name ELSE _image_embedding_model_name
       /\ UNCHANGED <<_embedding_model_name, _sparse_embedding_model_name,
                      embedding_models, sparse_embedding_models>>

\* set_sparse_model: None is stored without a resolve (line 194)
set_sparse_model(name, cache_dir) ==
    LET r == IF name # None THEN _get_or_init_sparse_model(name, cache_dir)
             ELSE [cache |-> sparse_embedding_models, built |-> constructed,
                   result |-> Returned(NoProvider)]
    IN /\ sparse_embedding_models' = r.cache
       /\ constructed' = r.built
       /\ _sparse_embedding_model_name' =
             IF r.result.raised = "" THEN name ELSE _sparse_embedding_model_name
       /\ UNCHANGED <<_embedding_model_name, _image_embedding_model_name,
                      embedding_models, image_embedding_models>>

\* __init__ in a process that has resolved the supported models before: no
\* model selected
Init ==
    /\ _embedding_model_name = None
    /\ _image_embedding_model_name = None
    /\ _sparse_embedding_model_name = None
    /\ InitStream
    /\ InitAdding
    /\ WarmRegistry
    /\ resolved = <<>>
    /\ InitThreads
    /\ InitQuerying

\* the session selects its models between two calls of add, and before it
\* runs a query
SetModel ==
    /\ add_pc = "idle"
    /\ query_call = NoQuery
    /\ \E name \in SUPPORTED_EMBEDDING_MODELS, cache_dir \in CacheDirs :
          set_model(name, cache_dir)
    /\ UNCHANGED <<stream, adding, resolved, thread, querying>>
SetImageModel ==
    /\ add_pc = "idle"
    /\ query_call = NoQuery
    /\ \E name \in SUPPORTED_IMAGE_EMBEDDING_MODELS, cache_dir \in CacheDirs :
          set_image_model(name, cache_dir)
    /\ UNCHANGED <<stream, adding, resolved, thread, querying>>
SetSparseModel ==
    /\ add_pc = "idle"
    /\ query_call = NoQuery
    /\ \E name \in ModelOrNone({SPLADE}), cache_dir \in CacheDirs :
          set_sparse_model(name, cache_dir)
    /\ UNCHANGED <<stream, adding, resolved, thread, querying>>

Next ==
    \/ SetModel
    \/ SetImageModel
    \/ SetSparseModel
    \/ AddCall
    \/ AddGetCollection
    \/ AddValidate
    \/ AddUploadNext
    \/ AddLeave

Spec == Init /\ [][Next]_vars

\* ========================================================= model registry
\* Sessions of one process select models one call after the other, starting
\* with nothing resolved.
\* the names a caller passes for a slot: the supported ones and one more
ModelNames(slot) == SupportedModels(slot) \cup {UnsupportedModel}
CacheOf(slot) ==
    CASE slot = "dense" -> embedding_models
      [] slot = "image" -> image_embedding_models
      [] slot = "sparse" -> sparse_embedding_models
\* an entry of resolved: the call, how it ended, and for a selection the
\* field name of the slot afterwards
Call(op, slot, name, cache_dir, result, field) ==
    [op |-> op, slot |-> slot, model |-> name, cache_dir |-> cache_dir,
     result |-> result, field |-> field]

RegSetModel ==
    /\ Len(resolved) < MaxCalls
    /\ \E name \in ModelNames("dense"), cache_dir \in CacheDirs :
          /\ set_model(name, cache_dir)
          /\ resolved' = Append(resolved,
                Call("set_model", "dense", name, cache_dir,
                     _get_or_init_text_model(name, cache_dir).result,
                     get_vector_field_name'))
    /\ UNCHANGED <<stream, adding, thread, querying>>

RegSetImageModel ==
    /\ Len(resolved) < MaxCalls
    /\ \E name \in ModelNames("image"), cache_dir \in CacheDirs :
          /\ set_image_model(name, cache_dir)
          /\ resolved' = Append(resolved,
                Call("set_image_model", "image", name, cache_dir,
                     _get_or_init_image_model(name, cache_dir).result,
                     get_image_vector_field_name'))
    /\ UNCHANGED <<stream, adding, thread, querying>>

RegSetSparseModel ==
    /\ Len(resolved) < MaxCalls
    /\ \E name \in ModelOrNone(ModelNames("sparse")), cache_dir \in CacheDirs :
          /\ set_sparse_model(name, cache_dir)
          /\ resolved' = Append(resolved,
                Call("set_sparse_model", "sparse", name, cache_dir,
                     IF name = None THEN Returned(NoProvider)
                     ELSE _get_or_init_sparse_model(name, cache_dir).result,
                     get_sparse_vector_field_name'))
    /\ UNCHANGED <<stream, adding, thread, querying>>

\* the classmethods called directly, as the embedders and query do
RegResolve ==
    /\ Len(resolved) < MaxCalls
    /\ \E slot \in Slots, cache_dir \in CacheDirs :
        \E name \in ModelNames(slot) :
          LET r == GetOrInit(CacheOf(slot), slot, name, cache_dir, constructed)
          IN /\ embedding_models' =
                   IF slot = "dense" THEN r.cache ELSE embedding_models
             /\ image_embedding_models' =
                   IF slot = "image" THEN r.cache ELSE image_embedding_models
             /\ sparse_embedding_models' =
                   IF slot = "sparse" THEN r.cache ELSE sparse_embedding_models
             /\ constructed' = r.built
             /\ resolved' = Append(resolved,
                   Call("resolve", slot, name, cache_dir, r.result, None))
    /\ UNCHANGED <<session, stream, adding, thread, querying>>

\* __init__ of another session (lines 56-58): the class attributes stay
RegNewSession ==
    /\ session # <<None, None, None>>
    /\ _embedding_model_name' = None
    /\ _image_embedding_model_name' = None
    /\ _sparse_embedding_model_name' = None
    /\ UNCHANGED <<stream, adding, registry, resolved, thread, querying>>

InitRegistry ==
    /\ _embedding_model_name = None
    /\ _image_embedding_model_name = None
    /\ _sparse_embedding_model_name = None
    /\ ColdRegistry
    /\ resolved = <<>>
    /\ InitStream
    /\ InitAdding
    /\ InitThreads
    /\ InitQuerying

NextRegistry ==
    \/ RegSetModel
    \/ RegSetImageModel
    \/ RegSetSparseModel
    \/ RegResolve
    \/ RegNewSession

SpecRegistry == InitRegistry /\ [][NextRegistry]_vars

\* ================================================== concurrent resolution
\* Threads of one process call _get_or_init_*_model at the same time; a
\* thread may be interrupted between any two of its steps.
ThreadCall(t) ==
    /\ thread[t].pc = "idle"
    /\ \E slot \in Slots : \E name \in ModelNames(slot) :
          thread' = [thread EXCEPT ![t] =
                       [pc |-> "lookup", slot |-> slot, model |-> name,
                        cache_dir |-> "dir_a", built |-> NoProvider,
                        result |-> Returned(NoProvider)]]
    /\ UNCHANGED <<session, stream, adding, registry, resolved, querying>>

\* lines 245-246: if model_name in cls.embedding_models: return the entry
ThreadLookup(t) ==
    /\ thread[t].pc = "lookup"
    /\ LET cache == CacheOf(thread[t].slot)
           name == thread[t].model
       IN thread' = [thread EXCEPT ![t] =
            IF name \in DOMAIN cache
            THEN [@ EXCEPT !.pc = "returned", !.result = Returned(cache[name])]
            ELSE [@ EXCEPT !.pc = "check"]]
    /\ UNCHANGED <<session, stream, adding, registry, resolved, querying>>

\* lines 248-253: raise ValueError for a name the table lacks
ThreadCheck(t) ==
    /\ thread[t].pc = "check"
    /\ thread' = [thread EXCEPT ![t] =
          IF thread[t].model \notin SupportedModels(thread[t].slot)
          THEN [@ EXCEPT !.pc = "raised", !.result = Raised("ValueError")]
          ELSE [@ EXCEPT !.pc = "construct"]]
    /\ UNCHANGED <<session, stream, adding, registry, resolved, querying>>

\* lines 255-261, the right-hand side: the provider is constructed
ThreadConstruct(t) ==
    /\ thread[t].pc = "construct"
    /\ constructed' = constructed + 1
    /\ thread' = [thread EXCEPT ![t] =
          [@ EXCEPT !.pc = "store",
                    !.built = Provider(thread[t].slot, thread[t].model,
                                       thread[t].cache_dir, constructed + 1)]]
    /\ UNCHANGED <<session, stream, adding, embedding_models,
                   image_embedding_models, sparse_embedding_models, resolved,
                   querying>>

\* line 255, the assignment: cls.embedding_models[model_name] = provider
ThreadStore(t) ==
    /\ thread[t].pc = "store"
    /\ LET slot == thread[t].slot
           c == SetItem(CacheOf(slot), thread[t].model, thread[t].built)
       IN /\ embedding_models' = IF slot = "dense" THEN c ELSE embedding_models
          /\ image_embedding_models' =
                IF slot = "image" THEN c ELSE image_embedding_models
          /\ sparse_embedding_models' =
                IF slot = "sparse" THEN c ELSE sparse_embedding_models
    /\ thread' = [thread EXCEPT ![t] = [@ EXCEPT !.pc = "return"]]
    /\ UNCHANGED <<session, stream, adding, constructed, resolved, querying>>

\* line 262: return cls.embedding_models[model_name]
ThreadReturn(t) ==
    /\ thread[t].pc = "return"
    /\ thread' = [thread EXCEPT ![t] =
          [@ EXCEPT !.pc = "returned",
                    !.result =
                        Returned(CacheOf(thread[t].slot)[thread[t].model])]]
    /\ UNCHANGED <<session, stream, adding, registry, resolved, querying>>

InitConcurrent ==
    /\ _embedding_model_name = None
    /\ _image_embedding_model_name = None
    /\ _sparse_embedding_model_name = None
    /\ ColdRegistry
    /\ resolved = <<>>
    /\ InitStream
    /\ InitAdding
    /\ InitThreads
    /\ InitQuerying

NextConcurrent ==
    \E t \in Threads :
        \/ ThreadCall(t)
        \/ ThreadLookup(t)
        \/ ThreadCheck(t)
        \/ ThreadConstruct(t)
        \/ ThreadStore(t)
        \/ ThreadReturn(t)

SpecConcurrent == InitConcurrent /\ [][NextConcurrent]_vars

\* ================================================================= query
\* ---------------------------------------------------------- store answers
\* a score: the fraction num / den
Score(num, den) == [num |-> num, den |-> den]
ScoreSum(a, b) == Score(a.num * b.den + b.num * a.den, a.den * b.den)
ScoreGreater(a, b) == a.num * b.den > b.num * a.den
\* a ScoredPoint the store answers with (with_payload=True, no vectors)
ScoredPoint(id, score) ==
    [id |-> id, score |-> score, payload |-> ("document" :> Doc(id))]
\* the answer to one search request: the points of ids, best first
Response(ids) ==
    [i \in 1..Len(ids) |-> ScoredPoint(Id(ids[i]), Score(10 - i, 10))]
\* what search answers, and what search_batch answers per request
Responses == {Response(ids) : ids \in {<<>>, <<1>>, <<2>>, <<1, 2>>, <<2, 1>>}}
BatchResponses == {Response(ids) : ids \in {<<1>>, <<1, 2>>, <<2, 1>>}}

\* ------------------------------------------------- reciprocal rank fusion
\* reciprocal_rank_fusion is imported from qdrant_client.hybrid.fusion; it
\* is modelled as section 4.5 of the design describes it.
RRF_K == 1
\* the hits of all lists in the order given, each with its position
RECURSIVE RRF_Hits(_)
RRF_Hits(lists) ==
    IF lists = <<>> THEN <<>>
    ELSE [i \in 1..Len(Head(lists)) |-> [point |-> Head(lists)[i], pos |-> i - 1]]
         \o RRF_Hits(Tail(lists))
\* the ids in the order in which they are first seen
RECURSIVE RRF_FirstSeen(_, _)
RRF_FirstSeen(hits, seen) ==
    IF hits = <<>> THEN <<>>
    ELSE IF Head(hits).point.id \in seen THEN RRF_FirstSeen(Tail(hits), seen)
    ELSE <<Head(hits).point.id>>
         \o RRF_FirstSeen(Tail(hits), seen \cup {Head(hits).point.id})
\* the sum over the hits of id of 1 / (k + pos + 1)
RECURSIVE RRF_Total(_, _)
RRF_Total(hits, id) ==
    IF hits = <<>> THEN Score(0, 1)
    ELSE IF Head(hits).point.id = id
    THEN ScoreSum(Score(1, RRF_K + Head(hits).pos + 1), RRF_Total(Tail(hits), id))
    ELSE RRF_Total(Tail(hits), id)
\* ids by total score, highest first; among equals the one seen first
RECURSIVE RRF_Sorted(_, _)
RRF_Sorted(ids, hits) ==
    IF ids = <<>> THEN <<>>
    ELSE LET best == CHOOSE i \in 1..Len(ids) :
                        /\ \A j \in 1..Len(ids) :
                              ~ScoreGreater(RRF_Total(hits, ids[j]),
                                            RRF_Total(hits, ids[i]))
                        /\ \A j \in 1..(i - 1) :
                              ScoreGreater(RRF_Total(hits, ids[i]),
                                           RRF_Total(hits, ids[j]))
         IN <<ids[best]>>
            \o RRF_Sorted([k \in 1..(Len(ids) - 1) |->
                              IF k < best THEN ids[k] ELSE ids[k + 1]], hits)
reciprocal_rank_fusion(lists, limit) ==
    LET hits == RRF_Hits(lists)
        sorted == RRF_Sorted(RRF_FirstSeen(hits, {}), hits)
        first(id) == hits[CHOOSE i \in 1..Len(hits) :
                            /\ hits[i].point.id = id
                            /\ \A j \in 1..(i - 1) : hits[j].point.id # id].point
    IN [i \in 1..Min(limit, Len(sorted)) |->
          [first(sorted[i]) EXCEPT !.score = RRF_Total(hits, sorted[i])]]

\* --------------------------------------------------------------- results
\* _scored_points_to_query_responses: the points carry no vectors, so the
\* three embeddings are None
\* payload.get(key, ""), the empty string written <<>>
PayloadGet(payload, key) ==
    IF key \in DOMAIN payload THEN payload[key] ELSE <<>>
QueryResponse(point) ==
    [id |-> point.id, embedding |-> None, image_embedding |-> None,
     sparse_embedding |-> None, metadata |-> point.payload,
     document |-> PayloadGet(point.payload, "document"),
     image_path |-> PayloadGet(point.payload, "image_path"),
     score |-> point.score]
_scored_points_to_query_responses(points) ==
    [i \in 1..Len(points) |-> QueryResponse(points[i])]

\* -------------------------------------------------------------- requests
\* a query: a text or a path, or a dict of one field name to one of these
QueryStr(value) == [kind |-> "str", value |-> value]
QueryDict(key, value) == [kind |-> "dict", key |-> key, value |-> value]
QueryKey(q) == IF q.kind = "dict" THEN q.key ELSE None
\* the queries of a batch: a list, or a dict of field names to queries
QueryList(items) == [kind |-> "list", items |-> items]
QueriesDict(keys, items) == [kind |-> "dict", keys |-> keys, items |-> items]
\* models.SearchRequest over models.NamedVector or models.NamedSparseVector
SearchRequest(name, vector, sparse, limit) ==
    [name |-> name, vector |-> vector, sparse |-> sparse, limit |-> limit]
\* the calls a query makes: an embedding call of a provider, a store call
EmbedEvent(slot, model, items) ==
    [ev |-> "embed", slot |-> slot, model |-> model, items |-> items]
StoreEvent(call, requests, responses) ==
    [ev |-> call, requests |-> requests, responses |-> responses]
QueryReturned(v) == [outcome |-> "returned", error |-> "", value |-> v]
QueryRaised(e) == [outcome |-> "raised", error |-> e, value |-> <<>>]
\* the field name get_vector_field_name gives while model is selected
FieldNameOf(model) == <<"fast-", Lower(model[Len(model)])>>

\* ----------------------------------------------------------------- query
\* the texts and the image paths a caller passes to query
\* (a dict key is a field name; <<>> is the empty string, the name of a
\* collection's unnamed vector)
QueryTexts ==
    {NotGiven, QueryStr(Doc(1)), QueryDict(<<"custom-", "text">>, Doc(1)),
     QueryDict(<<>>, Doc(1))}
QueryImages ==
    {NotGiven, QueryStr(Doc(2)), QueryDict(<<"custom-", "image">>, Doc(2)),
     QueryDict(<<>>, Doc(2))}
\* the truth value of a field name or None: vector_name if vector_name else
Truthy(name) == name # None /\ name # <<>>
Limits == {1, 2}
\* the first statement of query and of query_batch
SparseWithoutDenseNever == FALSE
SparseWithoutDense ==
    _sparse_embedding_model_name # None /\ _embedding_model_name = None
\* query refuses (query_text is None) is (query_image is None); query_batch
\* refuses (query_texts is None) and (query_images is None)
NoneGiven(query_text, query_image) ==
    ~Given(query_text) /\ ~Given(query_image)
NotExactlyOneGiven(query_text, query_image) ==
    Given(query_text) = Given(query_image)
NeitherGiven(query_texts, query_images) ==
    ~Given(query_texts) /\ ~Given(query_images)
\* the requests of the one search_batch call of a hybrid query
SparseRequestFirst(dense_request, sparse_request) ==
    <<sparse_request, dense_request>>
HybridRequests(dense_request, sparse_request) ==
    <<dense_request, sparse_request>>
\* what a hybrid query makes of the two answers of the store
FuseByConcatenation(dense_response, sparse_response, limit) ==
    dense_response \o sparse_response
FuseHybrid(dense_response, sparse_response, limit) ==
    reciprocal_rank_fusion(<<dense_response, sparse_response>>, limit)
\* what a call of query does that stops before any embedding or store call
QueryStops(error, dense) ==
    [events |-> <<>>, result |-> QueryRaised(error), dense |-> dense,
     path |-> "none"]
\* query, from its first statement to its return or raise. The store
\* answers dense_response to the search or to the dense request and
\* sparse_response to the sparse request; name_checked says whether
\* models.NamedVector refuses a name that is None. The result is the calls
\* made, how query ended, the dense model selected afterwards and which
\* providers were resolved.
query(query_text, query_image, limit, dense_response, sparse_response, name_checked) ==
    IF SparseWithoutDense
    THEN QueryStops("ValueError", _embedding_model_name)
    ELSE IF NotExactlyOneGiven(query_text, query_image)
    THEN QueryStops("ValueError", _embedding_model_name)
    ELSE IF Given(query_text)
    THEN LET model == embedding_model_name
             embedded == <<EmbedEvent("dense", model, <<query_text.value>>)>>
             vector_name == IF Truthy(QueryKey(query_text))
                            THEN QueryKey(query_text)
                            ELSE FieldNameOf(model)
             dense_request ==
                 SearchRequest(vector_name,
                               Vec("dense", model, query_text.value),
                               FALSE, limit)
             sparse_request ==
                 SearchRequest(get_sparse_vector_field_name,
                               Vec("sparse", _sparse_embedding_model_name,
                                   query_text.value),
                               TRUE, limit)
         IN IF _sparse_embedding_model_name = None
            THEN [events |-> embedded \o
                     <<StoreEvent("search", <<dense_request>>,
                                  <<dense_response>>)>>,
                  result |-> QueryReturned(
                     _scored_points_to_query_responses(dense_response)),
                  dense |-> model, path |-> "text"]
            ELSE [events |-> embedded \o
                     <<EmbedEvent("sparse", _sparse_embedding_model_name,
                                  <<query_text.value>>),
                       StoreEvent("search_batch",
                                  HybridRequests(dense_request, sparse_request),
                                  <<dense_response, sparse_response>>)>>,
                  result |-> QueryReturned(
                     _scored_points_to_query_responses(
                        FuseHybrid(dense_response, sparse_response, limit))),
                  dense |-> model, path |-> "hybrid"]
    ELSE IF _image_embedding_model_name = None
    THEN QueryStops("ValueError", _embedding_model_name)
    ELSE LET model == _image_embedding_model_name
             embedded == <<EmbedEvent("image", model, <<query_image.value>>)>>
             vector_name == IF Truthy(QueryKey(query_image))
                            THEN QueryKey(query_image)
                            ELSE get_vector_field_name
             request == SearchRequest(vector_name,
                                      Vec("image", model, query_image.value),
                                      FALSE, limit)
         IN IF vector_name = None /\ name_checked
            THEN [events |-> embedded, result |-> QueryRaised("ValidationError"),
                  dense |-> _embedding_model_name, path |-> "image"]
            ELSE [events |-> embedded \o
                     <<StoreEvent("search", <<request>>, <<dense_response>>)>>,
                  result |-> QueryReturned(
                     _scored_points_to_query_responses(dense_response)),
                  dense |-> _embedding_model_name, path |-> "image"]

\* the providers a query resolves: the caches and the number of providers
\* constructed afterwards
QueryResolves(path, dense) ==
    LET t == IF path \in {"text", "hybrid"}
             THEN GetOrInit(embedding_models, "dense", dense, "dir_a",
                            constructed)
             ELSE [cache |-> embedding_models, built |-> constructed]
        s == IF path = "hybrid"
             THEN GetOrInit(sparse_embedding_models, "sparse",
                            _sparse_embedding_model_name, "dir_a", t.built)
             ELSE [cache |-> sparse_embedding_models, built |-> t.built]
        i == IF path = "image"
             THEN GetOrInit(image_embedding_models, "image",
                            _image_embedding_model_name, "dir_a", s.built)
             ELSE [cache |-> image_embedding_models, built |-> s.built]
    IN /\ embedding_models' = t.cache
       /\ sparse_embedding_models' = s.cache
       /\ image_embedding_models' = i.cache
       /\ constructed' = i.built

QueryCall(op, text, image, limit) ==
    [op |-> op, text |-> text, image |-> image, limit |-> limit,
     dense |-> _embedding_model_name,
     image_model |-> _image_embedding_model_name,
     sparse |-> _sparse_embedding_model_name]

\* a caller runs query to its end
Query ==
    /\ query_call = NoQuery
    /\ \E query_text \in QueryTexts, query_image \in QueryImages,
          limit \in Limits, dense_response \in Responses,
          sparse_response \in Responses, name_checked \in BOOLEAN :
          LET q == query(query_text, query_image, limit, dense_response,
                         sparse_response, name_checked)
          IN /\ query_call' =
                   QueryCall("query", query_text, query_image, limit)
             /\ query_events' = q.events
             /\ query_result' = q.result
             /\ _embedding_model_name' = q.dense
             /\ QueryResolves(q.path, q.dense)
             /\ UNCHANGED <<_image_embedding_model_name,
                            _sparse_embedding_model_name, stream, adding,
                            resolved, thread>>

\* ----------------------------------------------------------- query_batch
\* the texts and the image paths a caller passes to query_batch
QueryCounts == {1, 2}
CustomField(kind, i) == <<"custom-", kind, i>>
BatchOf(kind, first) ==
    {NotGiven}
    \cup {QueryList([i \in 1..n |-> Doc(first + i)]) : n \in QueryCounts}
    \cup {QueriesDict([i \in 1..n |-> CustomField(kind, i)],
                      [i \in 1..n |-> Doc(first + i)]) : n \in QueryCounts}
QueryTextBatches == BatchOf("text", 0)
QueryImageBatches == BatchOf("image", 2)
\* how many requests the store is sent for the texts, and for the images
TextRequestCount(query_texts) ==
    IF ~Given(query_texts) THEN 0
    ELSE IF _sparse_embedding_model_name = None THEN Len(query_texts.items)
    ELSE 2 * Len(query_texts.items)
ImageRequestCount(query_images) ==
    IF ~Given(query_images) THEN 0 ELSE Len(query_images.items)

\* the answer to the sparse request of the i-th of n texts: responses[n:]
\* zipped with responses[:n]
SparseResponseCrossed(n, i) == 2 * n + 1 - i
SparseResponseOf(n, i) == n + i
\* _query_text_batch: responses are the store's answers, one per request
_query_text_batch(query_texts, limit, responses) ==
    LET model == embedding_model_name
        items == query_texts.items
        n == Len(items)
        embedded == <<EmbedEvent("dense", model, items)>>
        dense_requests ==
            [i \in 1..n |->
               SearchRequest(FieldNameOf(model), Vec("dense", model, items[i]),
                             FALSE, limit)]
        sparse_requests ==
            [i \in 1..n |->
               SearchRequest(get_sparse_vector_field_name,
                             Vec("sparse", _sparse_embedding_model_name,
                                 items[i]),
                             TRUE, limit)]
    IN IF _sparse_embedding_model_name = None
       THEN [events |-> embedded \o
                <<StoreEvent("search_batch", dense_requests, responses)>>,
             value |-> [i \in 1..n |->
                          _scored_points_to_query_responses(responses[i])],
             dense |-> model, path |-> "text"]
       ELSE [events |-> embedded \o
                <<EmbedEvent("sparse", _sparse_embedding_model_name, items),
                  StoreEvent("search_batch", dense_requests \o sparse_requests,
                             responses)>>,
             value |-> [i \in 1..n |->
                          _scored_points_to_query_responses(
                             reciprocal_rank_fusion(
                                <<responses[i],
                                  responses[SparseResponseOf(n, i)]>>,
                                limit))],
             dense |-> model, path |-> "hybrid"]

\* _query_image_batch in a session whose dense model is dense
_query_image_batch(query_images, limit, responses, dense, name_checked) ==
    IF _image_embedding_model_name = None
    THEN [events |-> <<>>, raised |-> "ValueError", value |-> <<>>,
          path |-> "none"]
    ELSE LET model == _image_embedding_model_name
             items == query_images.items
             n == Len(items)
             default_vector_name ==
                 IF dense = None THEN None ELSE FieldNameOf(dense)
             vector_names == IF query_images.kind = "dict"
                             THEN query_images.keys
                             ELSE [i \in 1..n |-> default_vector_name]
             embedded == <<EmbedEvent("image", model, items)>>
             requests ==
                 [i \in 1..n |->
                    SearchRequest(vector_names[i],
                                  Vec("image", model, items[i]), FALSE, limit)]
         IN IF name_checked /\ \E i \in 1..n : vector_names[i] = None
            THEN [events |-> embedded, raised |-> "ValidationError",
                  value |-> <<>>, path |-> "image"]
            ELSE [events |-> embedded \o
                     <<StoreEvent("search_batch", requests, responses)>>,
                  raised |-> "",
                  value |-> [i \in 1..n |->
                               _scored_points_to_query_responses(responses[i])],
                  path |-> "image"]

\* query_batch, from its first statement to its return or raise
query_batch(query_texts, query_images, limit, text_responses, image_responses, name_checked) ==
    IF SparseWithoutDense
    THEN QueryStops("ValueError", _embedding_model_name)
         @@ [image_path |-> "none"]
    ELSE IF NeitherGiven(query_texts, query_images)
    THEN QueryStops("ValueError", _embedding_model_name)
         @@ [image_path |-> "none"]
    ELSE LET t == IF Given(query_texts)
                  THEN _query_text_batch(query_texts, limit, text_responses)
                  ELSE [events |-> <<>>, value |-> <<>>,
                        dense |-> _embedding_model_name, path |-> "none"]
             i == IF Given(query_images)
                  THEN _query_image_batch(query_images, limit, image_responses,
                                          t.dense, name_checked)
                  ELSE [events |-> <<>>, raised |-> "", value |-> <<>>,
                        path |-> "none"]
         IN [events |-> t.events \o i.events,
             result |-> IF i.raised # "" THEN QueryRaised(i.raised)
                        ELSE QueryReturned(t.value \o i.value),
             dense |-> t.dense, path |-> t.path, image_path |-> i.path]

\* a caller runs query_batch to its end
QueryBatch ==
    /\ query_call = NoQuery
    /\ \E query_texts \in QueryTextBatches, query_images \in QueryImageBatches,
          limit \in Limits, name_checked \in BOOLEAN :
          \E text_responses \in
                [1..TextRequestCount(query_texts) -> BatchResponses],
             image_responses \in
                [1..ImageRequestCount(query_images) -> BatchResponses] :
             LET q == query_batch(query_texts, query_images, limit,
                                  text_responses, image_responses, name_checked)
             IN /\ query_call' =
                      QueryCall("query_batch", query_texts, query_images, limit)
                /\ query_events' = q.events
                /\ query_result' = q.result
                /\ _embedding_model_name' = q.dense
                /\ QueryResolves(IF q.image_path = "image" /\ q.path = "none"
                                 THEN "image" ELSE q.path, q.dense)
                /\ UNCHANGED <<_image_embedding_model_name,
                               _sparse_embedding_model_name, stream, adding,
                               resolved, thread>>

\* A session selects its models and then runs one query or one batch of
\* queries.
NextQuery ==
    \/ SetModel
    \/ SetImageModel
    \/ SetSparseModel
    \/ Query
    \/ QueryBatch

SpecQuery == Init /\ [][NextQuery]_vars

\* ================================================================ claims
\* ---------------------------------------------------- helpers of the claims
RECURSIVE MinOf(_)
MinOf(S) ==
    LET x == CHOOSE y \in S : TRUE
    IN IF S = {x} THEN x ELSE Min(x, MinOf(S \ {x}))
\* lengths of the supplied sequences among documents, images and ids
SuppliedLens ==
    {Len(args[k].data) : k \in {k2 \in {"documents", "images", "ids"} : Given(args[k2])}}
EmittedIds == [i \in 1..Len(emitted) |-> emitted[i].id]

\* C1 (as claimed): when the record stream ends, it has emitted exactly as
\* many records as the shortest supplied sequence among documents, images
\* and ids has elements, whatever metadata and vectors were supplied.
C1_EmitsShortestSupplied ==
    (status = "done" /\ SuppliedLens # {}) => Len(emitted) = MinOf(SuppliedLens)

C2_Pre ==
    /\ Given(args.documents) /\ Given(args.text_vectors)
    /\ ~Given(args.sparse_vectors)
    /\ Len(args.text_vectors.data) < Len(args.documents.data)
    /\ \A k \in {"ids", "metadata", "images", "image_vectors"} :
          Given(args[k]) => Len(args[k].data) >= Len(args.documents.data)
    /\ Given(args.images) => Given(args.image_vectors)
\* C2 (as claimed): with documents supplied, no sparse vectors, and a dense
\* vector sequence shorter than the documents (every other supplied sequence
\* being at least as long as the documents), the stream does not end
\* normally: it fails at the first document without a vector.
C2_ShortVectorsFail == C2_Pre => status # "done"

MissingEmbedding(t) ==
    \/ t.doc # None /\ t.text_vector = None /\ t.sparse_vector = None
    \/ t.image_path # None /\ t.image_vector = None
\* C3: at every aligned position (every tuple zip produced) where a document
\* is present with neither a text vector nor a sparse vector, or an image is
\* present without an image vector, the stream has aborted with an error and
\* has emitted no record for that position or any later one.
C3_MissingEmbeddingAborts ==
    \A i \in 1..Len(tuples) :
        MissingEmbedding(tuples[i]) => status = "error" /\ Len(emitted) < i
\* C3 is met: the second tuple holds a document with no vector; the stream
\* emitted the first record and then aborted.
C3_Witness ==
    /\ Len(tuples) = 2 /\ MissingEmbedding(tuples[2]) /\ ~MissingEmbedding(tuples[1])
    /\ tuples[2].doc # None
    /\ status = "error" /\ Len(emitted) = 1

\* C8: when ids are not supplied, the records emitted in one call carry
\* generated ids that are pairwise distinct.
C8_GeneratedIdsDistinct ==
    ~Given(args.ids) =>
        /\ \A i \in 1..Len(emitted) : emitted[i].id[1] = "uuid"
        /\ \A i, j \in 1..Len(emitted) : i # j => emitted[i].id # emitted[j].id
\* C8 is met: two records with generated ids were emitted.
C8_Witness ==
    /\ ~Given(args.ids) /\ Len(emitted) >= 2
    /\ emitted[1].id # emitted[2].id

\* C9 (as claimed): at every point of consuming the stream, also after it
\* aborted with an error, ids_accumulator holds exactly the ids of the
\* records emitted so far, in emission order.
C9_AccumulatorIsEmittedIds == ids_accumulator = EmittedIds

\* ------------------------------------------------------------ claims on add
FieldOf(prefix, model) == <<prefix, Lower(model[Len(model)])>>
\* the models of the running call: the dense model is the selected one, or
\* the default when the call was made with no model selected at all
DefaultMode ==
    add_call.dense = None /\ add_call.image = None /\ add_call.sparse = None
DenseActive == add_call.dense # None \/ DefaultMode
DenseModel ==
    IF add_call.dense = None THEN DEFAULT_EMBEDDING_MODEL ELSE add_call.dense
DenseField == FieldOf("fast-", DenseModel)
SparseField == FieldOf("fast-sparse-", add_call.sparse)
ImageField == FieldOf("fast-image-", add_call.image)
InAdd == add_pc \in {"upload", "returned", "raised"}
Uploading == \E i \in 1..Len(store_calls) : store_calls[i] = "upload_points"
\* ids and metadata do not cut the stream short of n records
LongEnough(n) ==
    /\ Given(add_call.ids) => Len(add_call.ids.data) >= n
    /\ Given(add_call.metadata) => Len(add_call.metadata.data) >= n

C4_Pre ==
    /\ add_call.sparse # None /\ add_call.dense = None
    /\ Given(add_call.documents) /\ ~Given(add_call.images)
    /\ Len(add_call.documents.data) >= 1
    /\ LongEnough(Len(add_call.documents.data))
    /\ Uploading
\* C4 (as claimed): with a sparse model active and no dense model active,
\* add(documents = d1..dn), n >= 1, into a matching collection returns after
\* emitting n records, each carrying the sparse field and no other.
C4_SparseOnlyIngest ==
    (C4_Pre /\ add_pc \in {"returned", "raised"}) =>
        /\ add_pc = "returned"
        /\ Len(emitted) = Len(add_call.documents.data)
        /\ \A i \in 1..Len(emitted) : DOMAIN emitted[i].vector = {SparseField}

ExpectedFields(t) ==
    (IF t.doc # None /\ DenseActive THEN {DenseField} ELSE {})
    \cup (IF t.doc # None /\ add_call.sparse # None THEN {SparseField} ELSE {})
    \cup (IF t.image_path # None THEN {ImageField} ELSE {})
C5_DenseOnly ==
    /\ add_call.image = None /\ add_call.sparse = None
    /\ Given(add_call.documents) /\ ~Given(add_call.images)
    /\ LongEnough(Len(add_call.documents.data))
\* C5: every record emitted by add carries a vector under exactly the fields
\* implied by the models applicable to its inputs: the dense field for a
\* document when the dense model is active (or no model is selected), the
\* sparse field for a document when the sparse model is active, the image
\* field for an image; and a dense-only ingest of n documents returns n
\* records with the one field fast-<model> each.
C5_RecordsCarryImpliedFields ==
    InAdd =>
        /\ \A i \in 1..Len(emitted) :
              DOMAIN emitted[i].vector = ExpectedFields(tuples[i])
        /\ (C5_DenseOnly /\ add_pc = "returned") =>
              /\ Len(emitted) = Len(add_call.documents.data)
              /\ \A i \in 1..Len(emitted) : DOMAIN emitted[i].vector = {DenseField}
\* C5 is met: a dense-only ingest of two documents, no model selected.
C5_Witness ==
    /\ add_pc = "returned" /\ C5_DenseOnly /\ DefaultMode
    /\ Len(emitted) = 2
    /\ \A i \in 1..2 : DOMAIN emitted[i].vector = {<<"fast-", "bge-small-en">>}
\* C5 is met with all three models: records with three fields.
C5_WitnessAllModels ==
    /\ add_pc = "returned" /\ Len(emitted) = 2
    /\ \A i \in 1..2 : Cardinality(DOMAIN emitted[i].vector) = 3

C6_RecordAligned(i) ==
    LET r == emitted[i]
    IN /\ Given(add_call.ids) =>
            i <= Len(add_call.ids.data) /\ r.id = add_call.ids.data[i]
       /\ Given(add_call.metadata) =>
            /\ i <= Len(add_call.metadata.data)
            /\ \A k \in DOMAIN add_call.metadata.data[i] :
                  k \in DOMAIN r.payload /\ r.payload[k] = add_call.metadata.data[i][k]
       /\ Given(add_call.documents) =>
            /\ i <= Len(add_call.documents.data)
            /\ "document" \in DOMAIN r.payload
            /\ r.payload["document"] = add_call.documents.data[i]
            /\ DenseField \in DOMAIN r.vector =>
                  r.vector[DenseField] =
                      Vec("dense", DenseModel, add_call.documents.data[i])
            /\ SparseField \in DOMAIN r.vector =>
                  r.vector[SparseField] =
                      Vec("sparse", add_call.sparse, add_call.documents.data[i])
\* C6: the i-th record emitted by add carries the i-th supplied id, the i-th
\* supplied metadata, the i-th document in its payload, and the dense and
\* sparse vectors computed from that i-th document.
C6_OrderPreserving == InAdd => \A i \in 1..Len(emitted) : C6_RecordAligned(i)
\* C6 is met: a hybrid ingest of two lazily generated documents with ids
\* and metadata, embedded one document at a time.
C6_Witness ==
    /\ add_pc = "returned" /\ Len(emitted) = 2
    /\ Given(add_call.documents) /\ add_call.documents.single_pass
    /\ Given(add_call.ids) /\ Given(add_call.metadata)
    /\ add_call.batch_size = 1
    /\ \A i \in 1..2 : {DenseField, SparseField} \subseteq DOMAIN emitted[i].vector

C7_Pre ==
    /\ add_call.image # None
    /\ Given(add_call.images) /\ add_call.images.single_pass
    /\ ~Given(add_call.documents)
    /\ LongEnough(Len(add_call.images.data))
    /\ Uploading
\* C7 (as claimed): with an image model active and the images given as a
\* single-pass generator of n images, add returns after emitting n records,
\* the i-th carrying the i-th image path and the vector of that image.
C7_LazyImagesAligned ==
    (C7_Pre /\ add_pc \in {"returned", "raised"}) =>
        /\ add_pc = "returned"
        /\ Len(emitted) = Len(add_call.images.data)
        /\ \A i \in 1..Len(emitted) :
              /\ emitted[i].payload["image_path"] = add_call.images.data[i]
              /\ emitted[i].vector[ImageField] =
                    Vec("image", add_call.image, add_call.images.data[i])

C10_Declares(ci, field, params) ==
    /\ field \in DOMAIN ci.vectors
    /\ ci.vectors[field].size = params.size
    /\ ci.vectors[field].distance = params.distance
C10_Matches(ci) ==
    /\ _embedding_model_name # None =>
          C10_Declares(ci, FieldOf("fast-", _embedding_model_name),
                       _get_text_model_params(_embedding_model_name))
    /\ _image_embedding_model_name # None =>
          C10_Declares(ci, FieldOf("fast-image-", _image_embedding_model_name),
                       _get_image_model_params(_image_embedding_model_name))
    /\ _sparse_embedding_model_name # None =>
          /\ ci.sparse_vectors.given
          /\ FieldOf("fast-sparse-", _sparse_embedding_model_name)
                \in ci.sparse_vectors.fields
\* C10: in add the validation comes before any upsert: when the collection
\* does not declare what the selected models require, add raises without
\* having called upload_points and without a record built or an input read.
C10_ValidationBeforeUpsert ==
    (InAdd /\ ~C10_Matches(collection_info)) =>
        /\ add_pc = "raised"
        /\ ~Uploading
        /\ status = "idle" /\ emitted = <<>> /\ ids_accumulator = <<>>
        /\ cursor = ZeroCursor /\ buffer = EmptyBuffer
\* C10 is met: add raised on a collection that does not match, having
\* called get_collection only.
C10_Witness ==
    /\ add_pc = "raised" /\ ~C10_Matches(collection_info)
    /\ store_calls = <<"get_collection">>
    /\ Given(add_call.documents) /\ Len(add_call.documents.data) = 2
    /\ emitted = <<>>

\* the validation of the running add call passed (upload_points was
\* reached), or it failed (add raised with every store call answered and
\* upload_points not reached)
ValidationPassed == Uploading
ValidationFailed ==
    /\ add_pc = "raised" /\ ~Uploading
    /\ store_outcomes # <<>> /\ store_outcomes[Len(store_outcomes)] = "ok"
\* the vector fields the selected dense and image models bind, with the
\* width and distance of the model
C11_Bindings ==
    {[field |-> FieldOf("fast-", m), params |-> _get_text_model_params(m)] :
        m \in {_embedding_model_name} \ {None}}
    \cup {[field |-> FieldOf("fast-image-", m),
           params |-> _get_image_model_params(m)] :
             m \in {_image_embedding_model_name} \ {None}}
C11_Declared(ci) ==
    /\ \A b \in C11_Bindings :
          /\ b.field \in DOMAIN ci.vectors
          /\ ci.vectors[b.field] = b.params
    /\ \A m \in {_sparse_embedding_model_name} \ {None} :
          /\ ci.sparse_vectors.given
          /\ FieldOf("fast-sparse-", m) \in ci.sparse_vectors.fields
\* C11: _validate_collection_info succeeds exactly when the collection
\* declares, for every selected dense or image model, a vector field of its
\* name with the same width and distance and, when a sparse model is
\* selected, a sparse field of its name; fields declared beyond these are
\* of no account.
C11_ValidatesIffDeclared ==
    /\ ValidationPassed => C11_Declared(collection_info)
    /\ ValidationFailed => ~C11_Declared(collection_info)
\* C11 is met: the validation passed on a collection of the store that
\* declares an image field next to the dense and sparse fields in use.
C11_Witness ==
    /\ ValidationPassed
    /\ store_calls = <<"get_collection", "upload_points">>
    /\ _embedding_model_name # None /\ _sparse_embedding_model_name # None
    /\ _image_embedding_model_name = None
    /\ Cardinality(DOMAIN collection_info.vectors) = 2

\* C12: in add only a get_collection that finds no collection leads to
\* create_collection; when get_collection fails otherwise, add raises that
\* failure and create_collection is not called.
C12_OnlyNotFoundCreates ==
    (store_outcomes # <<>> /\ store_outcomes[1] = "TransportError") =>
        /\ add_pc = "raised"
        /\ store_calls = <<"get_collection">>

\* --------------------------------------------------- claims on the registry
\* the calls of resolved that returned a provider
Resolves ==
    {i \in 1..Len(resolved) :
        resolved[i].model # None /\ resolved[i].result.raised = ""}
\* C13: whatever selections the sessions of a process made, two calls that
\* resolved the same model of the same slot got the identical provider,
\* whatever cache_dir the later one passed, and the cache of each slot holds
\* exactly the models resolved for that slot, each with a provider of its own
\* slot.
C13_IdenticalInstance ==
    /\ \A i \in Resolves, j \in Resolves :
          (resolved[i].slot = resolved[j].slot
             /\ resolved[i].model = resolved[j].model)
          => resolved[i].result.value = resolved[j].result.value
    /\ \A slot \in Slots :
          /\ DOMAIN CacheOf(slot) =
                {resolved[i].model : i \in {k \in Resolves : resolved[k].slot = slot}}
          /\ \A m \in DOMAIN CacheOf(slot) :
                CacheOf(slot)[m].slot = slot /\ CacheOf(slot)[m].model = m
\* C13 is met: a model was resolved twice with different cache_dir, and a
\* model of another slot in between.
C13_Witness ==
    /\ Len(resolved) = 3
    /\ Resolves = {1, 2, 3}
    /\ resolved[1].slot = resolved[3].slot /\ resolved[1].model = resolved[3].model
    /\ resolved[1].cache_dir # resolved[3].cache_dir
    /\ resolved[2].slot # resolved[1].slot

\* C14: a call that fails because the slot's table lacks the model name
\* leaves the three caches and the three selected model names as they were.
C14_FailedResolveChangesNothing ==
    [][(/\ Len(resolved') = Len(resolved) + 1
        /\ resolved'[Len(resolved')].result.raised = "ValueError")
       => (registry' = registry /\ session' = session)]_vars
\* C14 is met: set_model failed on an unsupported name in a session that had
\* selected a dense model before.
C14_Witness ==
    /\ Len(resolved) >= 2
    /\ resolved[Len(resolved)].op = "set_model"
    /\ resolved[Len(resolved)].result.raised = "ValueError"
    /\ resolved[1].op = "set_model" /\ 1 \in Resolves
    /\ _embedding_model_name = resolved[1].model
    /\ DOMAIN embedding_models = {resolved[1].model}

\* C15: however the steps of concurrent calls for the same model of the same
\* slot interleave, the provider is constructed once at most and the calls
\* return the same provider.
C15_ConstructedOnce ==
    \A t \in Threads, u \in Threads :
        (/\ t # u
         /\ thread[t].pc # "idle" /\ thread[u].pc # "idle"
         /\ thread[t].slot = thread[u].slot
         /\ thread[t].model = thread[u].model)
        => /\ ~(thread[t].built # NoProvider /\ thread[u].built # NoProvider)
           /\ (thread[t].pc = "returned" /\ thread[u].pc = "returned")
                 => thread[t].result = thread[u].result

\* C16: two different models selected for the same slot never give the same
\* field name.
C16_FieldNamesInjective ==
    \A i \in Resolves, j \in Resolves :
        (/\ resolved[i].op # "resolve" /\ resolved[j].op # "resolve"
         /\ resolved[i].slot = resolved[j].slot
         /\ resolved[i].model # resolved[j].model)
        => resolved[i].field # resolved[j].field

\* the store calls a query has made, in order
StoreCalls == SelectSeq(query_events, LAMBDA e : e.ev # "embed")
\* the embedding calls a query has made, in order
EmbedCalls == SelectSeq(query_events, LAMBDA e : e.ev = "embed")

\* C17: a call of query that is given both a text and an image, or neither,
\* raises, and has made no embedding call and no search or search_batch
\* call.
C17_AmbiguousQueryFails ==
    (/\ query_call.op = "query"
     /\ Given(query_call.text) = Given(query_call.image))
    => /\ query_result.outcome = "raised"
       /\ EmbedCalls = <<>>
       /\ StoreCalls = <<>>
\* query was given a text and an image in a session with a dense and an
\* image model, and raised the ValueError of line 776
C17_Witness ==
    /\ query_call.op = "query"
    /\ Given(query_call.text)
    /\ Given(query_call.image)
    /\ query_call.dense # None
    /\ query_call.image_model # None
    /\ query_call.sparse = None
    /\ query_result = QueryRaised("ValueError")

\* C18: a call of query or of query_batch that is given a text while a
\* sparse model and no dense model is selected raises, and has made no
\* embedding call and no search or search_batch call.
C18_SparseWithoutDenseFails ==
    (/\ query_call.op \in {"query", "query_batch"}
     /\ Given(query_call.text)
     /\ query_call.sparse # None
     /\ query_call.dense = None)
    => /\ query_result.outcome = "raised"
       /\ EmbedCalls = <<>>
       /\ StoreCalls = <<>>
\* query_batch was given texts in a session with only a sparse model, and
\* raised
C18_Witness ==
    /\ query_call.op = "query_batch"
    /\ Given(query_call.text)
    /\ ~Given(query_call.image)
    /\ query_call.sparse # None
    /\ query_call.dense = None
    /\ query_result = QueryRaised("ValueError")

\* a call of query with a text only, in a session with a dense and a sparse
\* model
HybridQuery ==
    /\ query_call.op = "query"
    /\ Given(query_call.text)
    /\ ~Given(query_call.image)
    /\ query_call.dense # None
    /\ query_call.sparse # None
\* C19: a hybrid query makes exactly one store call, a search_batch of two
\* requests, the first on the dense vector of the text and the second on
\* its sparse vector, and returns the mapped reciprocal rank fusion of the
\* answer to the first and the answer to the second, in this order.
C19_HybridOneBatch ==
    HybridQuery
    => /\ Len(StoreCalls) = 1
       /\ StoreCalls[1].ev = "search_batch"
       /\ Len(StoreCalls[1].requests) = 2
       /\ ~StoreCalls[1].requests[1].sparse
       /\ StoreCalls[1].requests[1].vector =
             Vec("dense", query_call.dense, query_call.text.value)
       /\ StoreCalls[1].requests[2].sparse
       /\ StoreCalls[1].requests[2].vector =
             Vec("sparse", query_call.sparse, query_call.text.value)
       /\ query_result =
             QueryReturned(_scored_points_to_query_responses(
                reciprocal_rank_fusion(<<StoreCalls[1].responses[1],
                                         StoreCalls[1].responses[2]>>,
                                       query_call.limit)))
\* a hybrid query returned two hits, of which the sparse request ranked
\* first the one the dense request ranked second
C19_Witness ==
    /\ HybridQuery
    /\ query_result.outcome = "returned"
    /\ Len(query_result.value) = 2
    /\ Len(StoreCalls) = 1
    /\ StoreCalls[1].responses[1] = Response(<<1, 2>>)
    /\ StoreCalls[1].responses[2] = Response(<<2, 1>>)

\* a call of query with an image only, in a session with an image model
ImageQuery ==
    /\ query_call.op = "query"
    /\ ~Given(query_call.text)
    /\ Given(query_call.image)
    /\ query_call.image_model # None
\* C20: an image query makes exactly one store call, a search with one
\* request on a named dense vector, and returns the mapped answer; this
\* holds whatever dense and sparse models are selected.
C20_ImageOnlyPath ==
    ImageQuery
    => /\ Len(StoreCalls) = 1
       /\ StoreCalls[1].ev = "search"
       /\ Len(StoreCalls[1].requests) = 1
       /\ ~StoreCalls[1].requests[1].sparse
       /\ query_result =
             QueryReturned(_scored_points_to_query_responses(
                StoreCalls[1].responses[1]))

\* the requests on a dense vector among the requests of the store calls
DenseRequests ==
    UNION {{StoreCalls[c].requests[r] :
              r \in {k \in 1..Len(StoreCalls[c].requests) :
                       ~StoreCalls[c].requests[k].sparse}} :
           c \in 1..Len(StoreCalls)}
\* the query of a call of query: the text if given, else the image
QueryGiven ==
    IF Given(query_call.text) THEN query_call.text ELSE query_call.image
\* a call of query with one text or one image given as a dict
MappingQuery ==
    /\ query_call.op = "query"
    /\ Given(query_call.text) # Given(query_call.image)
    /\ QueryGiven.kind = "dict"
\* C21: every request on a dense vector that a query given as a dict
\* dispatches names the field that is the key of the dict.
C21_KeyNamesField ==
    MappingQuery => \A request \in DenseRequests : request.name = QueryGiven.key

\* the search_batch call query_batch makes for its texts, and the one it
\* makes for its images: the texts go first
TextCalls == IF Given(query_call.text) THEN 1 ELSE 0
TextBatchDispatched ==
    /\ query_call.op = "query_batch"
    /\ Given(query_call.text)
    /\ Len(StoreCalls) >= 1
ImageBatchDispatched ==
    /\ query_call.op = "query_batch"
    /\ Given(query_call.image)
    /\ Len(StoreCalls) = TextCalls + 1
TextBatchCall == StoreCalls[1]
ImageBatchCall == StoreCalls[TextCalls + 1]
\* C22: in a query_batch given a dict of queries, the request on the dense
\* vector of the i-th query names the field that is the i-th key, for the
\* texts and for the images.
C22_KeysNameFields ==
    /\ (TextBatchDispatched /\ query_call.text.kind = "dict")
       => \A i \in 1..Len(query_call.text.items) :
             TextBatchCall.requests[i].name = query_call.text.keys[i]
    /\ (ImageBatchDispatched /\ query_call.image.kind = "dict")
       => \A i \in 1..Len(query_call.image.items) :
             ImageBatchCall.requests[i].name = query_call.image.keys[i]

\* C23: a call of query_batch that returns has made exactly one
\* search_batch call, whatever texts and images it was given and whatever
\* models are selected.
C23_OneBatchCall ==
    (query_call.op = "query_batch" /\ query_result.outcome = "returned")
    => /\ Len(StoreCalls) = 1
       /\ StoreCalls[1].ev = "search_batch"

\* a call of query_batch with texts only, in a session with a dense and a
\* sparse model
HybridBatch ==
    /\ query_call.op = "query_batch"
    /\ Given(query_call.text)
    /\ ~Given(query_call.image)
    /\ query_call.dense # None
    /\ query_call.sparse # None
\* C24: a hybrid batch of N texts makes one search_batch call whose
\* requests are the N requests on the dense vectors of the texts, in the
\* order of the texts, followed by the N requests on their sparse vectors
\* in the same order; it returns N entries, the i-th the mapped fusion of
\* the answer to request i with the answer to request N + i.
C24_HybridBatchPairs ==
    HybridBatch
    => LET items == query_call.text.items
           N == Len(items)
       IN /\ Len(StoreCalls) = 1
          /\ Len(StoreCalls[1].requests) = 2 * N
          /\ \A i \in 1..N :
                /\ ~StoreCalls[1].requests[i].sparse
                /\ StoreCalls[1].requests[i].vector =
                      Vec("dense", query_call.dense, items[i])
                /\ StoreCalls[1].requests[N + i].sparse
                /\ StoreCalls[1].requests[N + i].vector =
                      Vec("sparse", query_call.sparse, items[i])
          /\ query_result.outcome = "returned"
          /\ Len(query_result.value) = N
          /\ \A i \in 1..N :
                query_result.value[i] =
                   _scored_points_to_query_responses(
                      reciprocal_rank_fusion(
                         <<StoreCalls[1].responses[i],
                           StoreCalls[1].responses[N + i]>>,
                         query_call.limit))
\* a hybrid batch of two texts returned, and the store's answers to the
\* two sparse requests differ
C24_Witness ==
    /\ HybridBatch
    /\ Len(query_call.text.items) = 2
    /\ query_result.outcome = "returned"
    /\ Len(StoreCalls) = 1
    /\ StoreCalls[1].responses[1] = Response(<<1, 2>>)
    /\ StoreCalls[1].responses[3] = Response(<<1>>)
    /\ StoreCalls[1].responses[4] = Response(<<2, 1>>)
    /\ query_call.limit = 2

\* C25: a call of query or of query_batch that raises the error of a
\* wrong configuration (no query or two queries given, a sparse model
\* without a dense one, an image without an image model: all ValueError)
\* has made no search and no search_batch call.
C25_ConfigErrorBeforeDispatch ==
    (/\ query_call.op \in {"query", "query_batch"}
     /\ query_result = QueryRaised("ValueError"))
    => StoreCalls = <<>>

\* C26: the result of a hybrid query has at most limit entries and no two
\* of them have the same id, whatever the store answered to the dense and
\* to the sparse request.
C26_FusedWithinLimitNoDuplicates ==
    (HybridQuery /\ query_result.outcome = "returned")
    => /\ Len(query_result.value) <= query_call.limit
       /\ \A i, j \in 1..Len(query_result.value) :
             query_result.value[i].id = query_result.value[j].id => i = j
\* a hybrid query with a limit of two whose two answers hold the same two
\* ids returned two entries
C26_Witness ==
    /\ HybridQuery
    /\ query_call.limit = 2
    /\ Len(StoreCalls) = 1
    /\ StoreCalls[1].responses = <<Response(<<1, 2>>), Response(<<2, 1>>)>>
    /\ query_result.outcome = "returned"
    /\ {query_result.value[i].id : i \in 1..Len(query_result.value)} =
          {Id(1), Id(2)}

\* the field of the image model selected when the query was made
ImageFieldAtCall == FieldOf("fast-image-", query_call.image_model)
\* C27: the request of an image query given as a plain path, and every
\* request of a query_batch given a list of paths, names the field of the
\* selected image model.
C27_PositionalImageField ==
    /\ (ImageQuery /\ query_call.image.kind = "str")
       => \A c \in 1..Len(StoreCalls) :
             \A r \in 1..Len(StoreCalls[c].requests) :
                StoreCalls[c].requests[r].name = ImageFieldAtCall
    /\ (ImageBatchDispatched /\ query_call.image.kind = "list")
       => \A r \in 1..Len(ImageBatchCall.requests) :
             ImageBatchCall.requests[r].name = ImageFieldAtCall

\* C28: a call of query or of query_batch leaves the three field names of
\* the session as they were.
C28_QueryKeepsSelection ==
    [][query_call' # query_call
       => /\ get_vector_field_name' = get_vector_field_name
          /\ get_image_vector_field_name' = get_image_vector_field_name
          /\ get_sparse_vector_field_name' = get_sparse_vector_field_name]_vars

\* C29: when add has returned, the metadata mappings of the caller are the
\* ones handed in: same keys, same values.
C29_MetadataNotModified ==
    (add_pc = "returned" /\ Given(add_call.metadata))
    => args.metadata.data = add_call.metadata.data

\* the number of items of the longest sequence handed to add, 0 if none is
LongestSupplied ==
    LET lens == {Len(add_call[k].data) :
                   k \in {k2 \in {"ids", "metadata", "documents", "images"} :
                            Given(add_call[k2])}}
    IN IF lens = {} THEN 0 ELSE CHOOSE n \in lens : \A m \in lens : m <= n
\* an iterator that ends: one over a sequence, or an embedder of one
EndsByItself(d) == d.kind \in {"read", "embed"}
\* C30: the record stream of add ends after finitely many records: the zip
\* it draws from holds an iterator that ends, and it never emits more
\* records than the longest sequence handed to add has items, also when
\* none of ids, metadata, documents and images is handed in.
C30_StreamEnds ==
    (add_pc = "upload" /\ status = "running")
    => /\ \E slot \in DOMAIN iters : EndsByItself(iters[slot])
       /\ Len(emitted) <= LongestSupplied

\* add found no collection, created one and read it back
CreatedCollection ==
    /\ Len(store_calls) >= 3
    /\ store_calls[2] = "create_collection"
    /\ Len(store_outcomes) >= 3
    /\ store_outcomes[2] = "ok"
    /\ store_outcomes[3] = "ok"
\* C31: the collection add creates declares exactly the vector fields the
\* selected dense and image models bind, with their widths and distances,
\* and exactly the sparse field of the selected sparse model; the
\* validation that follows never fails on it.
C31_CreatedCollectionValidates ==
    CreatedCollection
    => /\ DOMAIN collection_info.vectors = {b.field : b \in C11_Bindings}
       /\ \A b \in C11_Bindings : collection_info.vectors[b.field] = b.params
       /\ collection_info.sparse_vectors.fields =
             {FieldOf("fast-sparse-", m) :
                m \in {_sparse_embedding_model_name} \ {None}}
       /\ ~ValidationFailed
       /\ add_pc \in {"validate", "upload", "returned", "raised"}
\* add created a collection for a dense, an image and a sparse model, and
\* the validation passed on it
C31_Witness ==
    /\ CreatedCollection
    /\ ValidationPassed
    /\ _embedding_model_name # None
    /\ _image_embedding_model_name # None
    /\ _sparse_embedding_model_name # None
    /\ Cardinality(DOMAIN collection_info.vectors) = 2

====
